---- MODULE Spec2Model ----
(***************************************************************************)
(* The REST client component RestClient (src/src/Api.jsx, the variant on   *)
(* the injected asynchronous window.storage, and src/src/Api1.jsx, the     *)
(* variant on localStorage): its history store, page cache, paginated      *)
(* loads and the sendRequest state machine.                                *)
(*                                                                         *)
(* Time is in milliseconds: an entry's timestamp is the integer its ISO    *)
(* string denotes (new Date(iso) is exact on what toISOString wrote), an   *)
(* id is the value Date.now() returned, and the store key "request:<id>"   *)
(* is the id.                                                              *)
(***************************************************************************)
EXTENDS Integers, Sequences, FiniteSets, TLC

VARIABLES
    variant,            \* "storage": Api.jsx, "local": Api1.jsx
    keyOrder,           \* the order in which the store enumerates its keys
    store,              \* key -> serialized record
    clock,              \* what Date.now() / performance.now() return
    ticks,              \* how often the clock has advanced
    mounted,            \* the mount effect has run
    loading, response, statusCode, duration,
    history, page, isLoadingHistory, totalCount, hasMore, showHistory,
    stats,              \* Api1.jsx: the statistics loadStats computed
    historyCache,       \* historyCache.current: page number -> cached page
    observer,           \* the IntersectionObserver installed, with the page
                        \* and hasMore its callback closed over
    overlap,            \* handlers may start while calls are in flight
    tasks,              \* the async calls in flight, each at its await
    sends, deletes, faults   \* how many were started, to bound the runs

vars == <<variant, keyOrder, store, clock, ticks, mounted, loading, response,
          statusCode, duration, history, page, isLoadingHistory, totalCount,
          hasMore, showHistory, stats, historyCache, observer, overlap, tasks,
          sends, deletes, faults>>

sendVars == <<loading, response, statusCode, duration>>
histVars == <<history, page, isLoadingHistory, totalCount, hasMore, stats>>
envVars  == <<variant, keyOrder, overlap>>

-----------------------------------------------------------------------------
(* Program constants and the bounds of the model *)

ITEMS_PER_PAGE == 20
RECENT_KEYS == 100      \* keys.slice(-100) in loadStats

MaxEntries == 44        \* largest store of the pagination runs
MaxTicks == 1           \* clock advances in one run
MaxMutations == 2       \* sendRequest and deleteHistoryItem calls in one run
MaxSends == 1           \* sendRequest calls in one run of SpecSend
MaxFaults == 1          \* store operations that fail in one run
MaxAsyncSends == 1      \* sendRequest calls in one run of SpecAsync
MaxEvents == 2          \* callbacks of one installed observer
MaxTasks == 2           \* calls in flight at once in the runs with overlap
MaxStatsLen == 5        \* largest store of arbitrary entries in the stats runs
MaxOlder == 2           \* entries beyond the 100 of the sample in the stats runs

Variants == {"storage", "local"}
KeyOrders == {"asc", "desc"}

-----------------------------------------------------------------------------
(* Values *)

None == <<>>
Some(v) == <<v>>

Min(a, b) == IF a < b THEN a ELSE b

\* The element of a set of one element. In The({e : x \in {v}}) the value v
\* is computed once, however often e uses x.
The(S) == CHOOSE r \in S : TRUE

Last(s) == s[Len(s)]
Front(s) == SubSeq(s, 1, Len(s) - 1)

\* A response text: raw text, or JSON.stringify(value, null, 2) of a value.
Raw(text) == [fmt |-> "raw", data |-> text, type |-> ""]
Pretty(text) == [fmt |-> "pretty", data |-> text, type |-> ""]
NoResponse == Raw("")

\* The item JSON.parse yields for a record that does not parse (the catch
\* of the per-key read returns null), and for a key that holds nothing.
NullItem == [id |-> 0 - 1, timestamp |-> 0 - 1, method |-> "", statusCode |-> 0 - 1,
             duration |-> 0 - 1, response |-> NoResponse]

\* JSON.stringify(item) and a stored string no JSON.parse accepts.
Serialize(item) == [json |-> TRUE, item |-> item]
Garbage == [json |-> FALSE, item |-> NullItem]

\* JSON.parse(itemStr) inside the try of the per-key read.
ParseRecord(value) == IF value.json THEN value.item ELSE NullItem

-----------------------------------------------------------------------------
(* The store's key enumeration *)

\* The members of a set of integers in ascending order: the integers from
\* its least to its greatest member, those outside the set left out.
AscendingSeq(S) ==
    IF S = {} THEN <<>>
    ELSE The({SelectSeq([i \in 1..(b[2] - b[1] + 1) |-> b[1] + i - 1],
                        LAMBDA k : k \in S) :
                 b \in {<<CHOOSE x \in S : \A y \in S : x <= y,
                          CHOOSE x \in S : \A y \in S : x >= y>>}})

Reverse(s) == [i \in 1..Len(s) |-> s[Len(s) + 1 - i]]

\* window.storage.list('request:').keys / getRequestKeys(): every key of the
\* prefix, in the order the store enumerates them.
getRequestKeys(st, order) ==
    IF order = "asc" THEN AscendingSeq(DOMAIN st)
    ELSE Reverse(AscendingSeq(DOMAIN st))

\* The fan-out of per-key reads: a key that is gone, or whose value does not
\* parse, yields null.
ReadItems(st, keys) ==
    [i \in 1..Len(keys) |->
        IF keys[i] \in DOMAIN st THEN ParseRecord(st[keys[i]]) ELSE NullItem]

-----------------------------------------------------------------------------
(* loadHistory's computation of one page *)

\* Array.prototype.sort with (a, b) => new Date(b.timestamp) - new
\* Date(a.timestamp): stable, descending by timestamp.
InsertByTimestamp(sorted, x) ==
    The({SelectSeq(sorted, LAMBDA y : y.timestamp >= v.timestamp) \o <<v>>
             \o SelectSeq(sorted, LAMBDA y : y.timestamp < v.timestamp) :
         v \in {x}})

\* s[lo..hi] inserted into sorted one after the other, in the order of s.
RECURSIVE InsertRange(_, _, _, _)
InsertRange(sorted, s, lo, hi) ==
    IF lo > hi THEN sorted
    ELSE IF lo = hi THEN InsertByTimestamp(sorted, s[lo])
    ELSE The({InsertRange(half, s, (lo + hi) \div 2 + 1, hi) :
                 half \in {InsertRange(sorted, s, lo, (lo + hi) \div 2)}})

SortByTimestampDesc(s) == The({InsertRange(<<>>, t, 1, Len(t)) : t \in {s}})

\* A filter that keeps every item read.
KeepsNull(item) == TRUE

NotNull(item) == item # NullItem

\* The filter without the sort: the entries in the order they were read.
UnsortedItems(historyData) == SelectSeq(historyData, NotNull)

\* historyData.filter(item => item !== null).sort(...)
SortedItems(historyData) == SortByTimestampDesc(SelectSeq(historyData, NotNull))

\* sorted.slice(startIndex, endIndex)
Slice(s, startIndex, endIndex) ==
    SubSeq(s, startIndex + 1, Min(endIndex, Len(s)))

\* Pages that start one entry early: each page repeats the last entry of the
\* page before it.
PaginatedItemsOverlapping(sorted, pageNum) ==
    Slice(sorted, (pageNum - 1) * (ITEMS_PER_PAGE - 1),
          (pageNum - 1) * (ITEMS_PER_PAGE - 1) + ITEMS_PER_PAGE)

PaginatedItems(sorted, pageNum) ==
    Slice(sorted, (pageNum - 1) * ITEMS_PER_PAGE,
          (pageNum - 1) * ITEMS_PER_PAGE + ITEMS_PER_PAGE)

\* endIndex <= sorted.length in place of endIndex < sorted.length.
HasMoreItemsInclusive(sorted, pageNum) ==
    (pageNum - 1) * ITEMS_PER_PAGE + ITEMS_PER_PAGE <= Len(sorted)

HasMoreItems(sorted, pageNum) ==
    (pageNum - 1) * ITEMS_PER_PAGE + ITEMS_PER_PAGE < Len(sorted)

\* What one store-reading loadHistory(pageNum) computes from the items read.
LoadPage(historyData, pageNum) ==
    The({[items |-> PaginatedItems(sorted, pageNum),
          total |-> Len(sorted),
          hasMore |-> HasMoreItems(sorted, pageNum)] :
         sorted \in {SortedItems(historyData)}})

-----------------------------------------------------------------------------
(* computeStats and the sample loadStats hands to it *)

\* An item saved without a duration.
NoDuration == 0 - 1

\* item.duration || 0
DurationOrZero(item) == IF item.duration = NoDuration THEN 0 ELSE item.duration

\* historyData.reduce((sum, item) => sum + (item.duration || 0), 0): the
\* sum, taken half by half to keep the evaluation shallow.
RECURSIVE SumDurations(_)
SumDurations(s) ==
    IF Len(s) = 0 THEN 0
    ELSE IF Len(s) = 1 THEN DurationOrZero(s[1])
    ELSE LET half == Len(s) \div 2
         IN SumDurations(SubSeq(s, 1, half)) +
            SumDurations(SubSeq(s, half + 1, Len(s)))

\* Math.floor in place of Math.round.
FloorDiv(a, b) == a \div b

\* Math.round(a / b) for a >= 0, b > 0: halves round up.
RoundDiv(a, b) == (2 * a + b) \div (2 * b)

\* Object.entries(methodCounts): one {method, count} per method, in the
\* order in which the methods first occur (the order in which the reduce
\* creates the object's keys).
MethodCounts(s) ==
    LET firsts == SelectSeq([k \in 1..Len(s) |-> k],
                            LAMBDA k : \A j \in 1..(k - 1) : s[j].method # s[k].method)
    IN [i \in 1..Len(firsts) |->
           [method |-> s[firsts[i]].method,
            count |-> Cardinality({j \in 1..Len(s) :
                                      s[j].method = s[firsts[i]].method})]]

\* .sort((a, b) => b.count - a.count): stable, descending by count.
RECURSIVE InsertByCount(_, _)
InsertByCount(sorted, x) ==
    IF sorted = <<>> THEN <<x>>
    ELSE IF Last(sorted).count >= x.count
         THEN Append(sorted, x)
         ELSE Append(InsertByCount(Front(sorted), x), Last(sorted))

RECURSIVE SortByCountDesc(_)
SortByCountDesc(s) ==
    IF s = <<>> THEN <<>>
    ELSE InsertByCount(SortByCountDesc(Front(s)), Last(s))

EmptyStats == [total |-> 0, avgDuration |-> 0, methodStats |-> <<>>]

computeStats(historyData) ==
    The({IF Len(data) = 0 THEN EmptyStats
         ELSE [total |-> Len(data),
               avgDuration |-> RoundDiv(SumDurations(data), Len(data)),
               methodStats |-> The({Slice(SortByCountDesc(counts), 0, 3) :
                                    counts \in {MethodCounts(data)}})] :
         data \in {historyData}})

\* keys.slice(-100): the last 100 keys of the enumeration.
RecentKeys(keys) ==
    SubSeq(keys, IF Len(keys) > RECENT_KEYS THEN Len(keys) - RECENT_KEYS + 1 ELSE 1,
           Len(keys))

-----------------------------------------------------------------------------
(* Store contents the program can have written *)

\* An entry as a completed request saved it.
Entry(id, timestamp, method, status, dur, resp) ==
    [id |-> id, timestamp |-> timestamp, method |-> method,
     statusCode |-> status, duration |-> dur, response |-> resp]

\* n saved entries with ids 1..n. With paired = FALSE each was saved in a
\* millisecond of its own; with paired = TRUE the clock advanced between the
\* id and the timestamp of every odd save and the next save fell into that
\* same millisecond, so entries 2k-1 and 2k share a timestamp. With
\* garbage = TRUE key 0 holds a string that does not parse.
SavedStore(n, paired, garbage) ==
    [k \in (1..n) \cup (IF garbage THEN {0} ELSE {}) |->
        IF k = 0 THEN Garbage
        ELSE Serialize(Entry(k, IF paired THEN 2 * ((k + 1) \div 2) ELSE k,
                             "GET", 200, 1, Raw("ok")))]

ParseableKeys(st) == {k \in DOMAIN st : st[k].json}

-----------------------------------------------------------------------------
(* sendRequest's inputs, validation and classification *)

BodyMethods == {"POST", "PUT", "PATCH"}

\* The validation without the new URL(url) check.
ValidateWithoutUrlFormat(req) ==
    IF req.headers = "bad" THEN "Invalid JSON in headers"
    ELSE IF req.body # "blank" /\ req.method \in BodyMethods /\ req.body = "bad"
         THEN "Invalid JSON in body"
    ELSE IF req.url = "blank" THEN "URL is required"
    ELSE ""

\* A validation that parses the body under every method.
ValidateBodyOfAnyMethod(req) ==
    IF req.headers = "bad" THEN "Invalid JSON in headers"
    ELSE IF req.body = "bad" THEN "Invalid JSON in body"
    ELSE IF req.url = "blank" THEN "URL is required"
    ELSE IF req.url = "bad" THEN "Invalid URL format"
    ELSE ""

\* The first validation that fails, as the message of the Error thrown, or
\* "" when none fails. req.headers and req.body say whether JSON.parse
\* accepts the text, req.url whether it is blank, malformed or absolute.
Validate(req) ==
    IF req.headers = "bad" THEN "Invalid JSON in headers"
    ELSE IF req.body # "blank" /\ req.method \in BodyMethods /\ req.body = "bad"
         THEN "Invalid JSON in body"
    ELSE IF req.url = "blank" THEN "URL is required"
    ELSE IF req.url = "bad" THEN "Invalid URL format"
    ELSE ""

ValidationError(message) == [message |-> message, name |-> "Error"]

\* The options of the method select.
Methods == {"GET", "POST", "PUT", "DELETE", "PATCH", "HEAD", "OPTIONS"}

\* parsedBody after the validation has passed: the body is parsed only when
\* it is not blank and the method is POST, PUT or PATCH, and is null
\* otherwise. "json" stands for a text JSON.parse turns into a truthy value.
parsedBody(req) ==
    IF req.body # "blank" /\ req.method \in BodyMethods THEN Some(req.body) ELSE None

\* fetchOptions.body: set only from a parsed body under POST, PUT or PATCH.
fetchOptionsBody(req) ==
    IF parsedBody(req) # None /\ req.method \in BodyMethods THEN parsedBody(req) ELSE None

\* What fetch rejects with when no response arrives, and what
\* response.json() rejects with on a body that is not JSON.
FetchErrors == {[message |-> "Failed to fetch", name |-> "TypeError"],
                [message |-> "CORS request did not succeed", name |-> "TypeError"]}
BodyError == [message |-> "Unexpected token < in JSON", name |-> "SyntaxError"]

\* error.message.includes('CORS')
IncludesCORS(message) == message = "CORS request did not succeed"

\* JSON.stringify({error, details, type}, null, 2)
ErrorResponse(error) ==
    [fmt |-> "pretty", data |-> error.message, type |-> error.name]

\* The status the catch block shows.
ShownErrorStatus(v, error) ==
    IF v = "storage"
    THEN (IF IncludesCORS(error.message) THEN 0 ELSE 400)
    ELSE (IF IncludesCORS(error.message) \/ error.name = "TypeError" THEN 0 ELSE 400)

\* A catch block that saves 400 for a validation error only and the sentinel
\* 0 for every other error.
SavedErrorStatusZero(error) == IF error.name = "Error" THEN 400 ELSE 0

\* The status the catch block writes into the history item.
SavedErrorStatus(error) == 400

\* The body as response.json() or response.text() returns it: a string
\* (text, or a JSON string literal) or a parsed value.
IsJsonType(srv) == srv.ctype = "application/json"
BodyReadFails(srv) == IsJsonType(srv) /\ srv.body = "malformed"
ResponseData(srv) ==
    IF IsJsonType(srv) /\ srv.body = "object"
    THEN [isString |-> FALSE, text |-> "{a:1}"]
    ELSE [isString |-> TRUE, text |-> srv.body]

\* typeof responseData === 'string' ? responseData
\*                                  : JSON.stringify(responseData, null, 2)
FormatResponse(responseData) ==
    IF responseData.isString THEN Raw(responseData.text)
    ELSE Pretty(responseData.text)

NoRequest == [method |-> "", headers |-> "", body |-> "", url |-> ""]
NoServer == [status |-> 0 - 1, ctype |-> "", body |-> ""]

-----------------------------------------------------------------------------
(* Calls in flight *)

\* One async call chain suspended at an await. op is the handler that
\* started it, pc the await it is suspended at. before records the store,
\* the count shown and the failures so far when the handler started, and for
\* a scroll load the pages cached; no action reads it.
Task(op, pc) ==
    [op |-> op, pc |-> pc, pageNum |-> 1, append |-> FALSE,
     keys |-> <<>>, data |-> <<>>, nkeys |-> 0,
     item |-> NullItem, target |-> 0 - 1, startTime |-> 0, requestDuration |-> 0,
     req |-> NoRequest, srv |-> NoServer, error |-> ValidationError(""),
     before |-> [store |-> store, totalCount |-> totalCount, faults |-> faults,
                 cached |-> IF op = "scroll" THEN DOMAIN historyCache ELSE {}]]

Done(t) == [t EXCEPT !.pc = "done"]

RemoveAt(s, i) == SubSeq(s, 1, i - 1) \o SubSeq(s, i + 1, Len(s))

\* The task list after task i moved to t (or ended).
Moved(i, t) ==
    IF t.pc = "done" THEN RemoveAt(tasks, i) ELSE [tasks EXCEPT ![i] = t]
Started(t) == IF t.pc = "done" THEN tasks ELSE Append(tasks, t)

\* The history state the handlers update, as one value.
Hist == [history |-> history, page |-> page, isLoadingHistory |-> isLoadingHistory,
         totalCount |-> totalCount, hasMore |-> hasMore, stats |-> stats,
         cache |-> historyCache]

SetHist(h) ==
    /\ history' = h.history
    /\ page' = h.page
    /\ isLoadingHistory' = h.isLoadingHistory
    /\ totalCount' = h.totalCount
    /\ hasMore' = h.hasMore
    /\ stats' = h.stats
    /\ historyCache' = h.cache

EmptyCache == [n \in {} |-> 0]

\* A reload without historyCache.current.clear().
KeepsCache(h) == [h EXCEPT !.page = 1]

\* historyCache.current.clear(); setPage(1)
ClearCache(h) == [h EXCEPT !.cache = EmptyCache, !.page = 1]

Put(f, k, v) == [x \in DOMAIN f \cup {k} |-> IF x = k THEN v ELSE f[x]]
Without(f, K) == [x \in DOMAIN f \ K |-> f[x]]

-----------------------------------------------------------------------------
(* loadStats and loadHistory, cut at their awaits *)

\* loadStats up to its await, on store st: with no key it sets the count to
\* 0 and returns; otherwise it suspends with the keys it counted.
StatsCall(t, h, st) ==
    The({IF keys = <<>>
         THEN [h |-> [h EXCEPT !.totalCount = 0, !.stats = Some(EmptyStats)],
               t |-> Done(t)]
         ELSE [h |-> h,
               t |-> [t EXCEPT !.pc = "stats", !.nkeys = Len(keys),
                               !.data = ReadItems(st, RecentKeys(keys))]] :
         keys \in {getRequestKeys(st, keyOrder)}})

\* loadStats after its await: setStats(computeStats(filteredData)) and
\* setTotalCount(keys.length).
StatsFinish(t, h) ==
    [h |-> [h EXCEPT !.totalCount = t.nkeys,
                     !.stats = Some(computeStats(SelectSeq(t.data, NotNull)))],
     t |-> Done(t)]

\* What follows `await loadHistory(..)` in the caller: Api1.jsx's handlers
\* go on to loadStats, Api.jsx's return.
AfterLoad(t, h, st) ==
    IF variant = "local" /\ t.op \in {"mount", "send", "delete", "refresh"}
    THEN StatsCall(t, h, st)
    ELSE [h |-> h, t |-> Done(t)]

\* A catch that logs without setHistory([]).
LoadFailedKeepsList(h) == [h EXCEPT !.isLoadingHistory = FALSE]

\* loadHistory's catch and finally.
LoadFailed(h) == [h EXCEPT !.history = <<>>, !.isLoadingHistory = FALSE]

\* A cache check that leaves out && !append.
CacheHitOnAppend(t, h) == t.pageNum \in DOMAIN h.cache

\* historyCache.current.has(cacheKey) && !append
CacheHit(t, h) == t.pageNum \in DOMAIN h.cache /\ ~t.append

\* loadHistory(t.pageNum, t.append) up to its first await, on store st.
\* fail: the key listing throws (Api1.jsx reads the keys before any await).
LoadCall(t, h, st, fail) ==
    IF CacheHit(t, h)
    THEN LET cached == h.cache[t.pageNum]
         IN AfterLoad(t, [h EXCEPT !.history = cached.items,
                                   !.totalCount = IF variant = "storage"
                                                  THEN cached.total ELSE @,
                                   !.hasMore = cached.hasMore], st)
    ELSE IF variant = "storage"
    THEN [h |-> [h EXCEPT !.isLoadingHistory = TRUE],
          t |-> [t EXCEPT !.pc = "list"]]
    ELSE IF fail
    THEN AfterLoad(t, LoadFailed(h), st)
    ELSE LET keys == getRequestKeys(st, keyOrder)
         IN IF keys = <<>>
            THEN AfterLoad(t, [h EXCEPT !.history = <<>>, !.totalCount = 0,
                                        !.hasMore = FALSE,
                                        !.isLoadingHistory = FALSE], st)
            ELSE [h |-> [h EXCEPT !.isLoadingHistory = TRUE],
                  t |-> [t EXCEPT !.pc = "get", !.keys = keys,
                                  !.data = ReadItems(st, keys)]]

\* A loadHistory that appends every page it loads, page 1 included.
LoadFinishAppends(t, h, historyData) ==
    The({[h EXCEPT !.totalCount = r.total,
                   !.cache = Put(h.cache, t.pageNum, r),
                   !.history = h.history \o r.items,
                   !.hasMore = r.hasMore,
                   !.isLoadingHistory = FALSE] :
         r \in {LoadPage(historyData, t.pageNum)}})

\* loadHistory after the reads are joined: the page is computed, cached and
\* shown, and the finally block ends the loading state.
LoadFinish(t, h, historyData) ==
    The({[h EXCEPT !.totalCount = r.total,
                   !.cache = Put(h.cache, t.pageNum, r),
                   !.history = IF t.append /\ t.pageNum > 1
                               THEN h.history \o r.items ELSE r.items,
                   !.hasMore = r.hasMore,
                   !.isLoadingHistory = FALSE] :
         r \in {LoadPage(historyData, t.pageNum)}})

\* saveToHistory(t.item) up to its first await. first and second are the
\* two clock reads of one save; failSet: setItem throws.
SaveCall(t, h, first, second, failSet, failList) ==
    IF variant = "storage"
    THEN [h |-> h, store |-> store,
          t |-> [t EXCEPT !.pc = "set", !.item.id = second, !.item.timestamp = first]]
    ELSE IF failSet
    THEN [h |-> h, store |-> store, t |-> Done(t)]
    ELSE LET item == [t.item EXCEPT !.id = first, !.timestamp = second]
             st == Put(store, first, Serialize(item))
             r == LoadCall([t EXCEPT !.item = item, !.pageNum = 1,
                                     !.append = FALSE],
                           ClearCache(h), st, failList)
         IN [h |-> r.h, store |-> st, t |-> r.t]

-----------------------------------------------------------------------------
(* The initial state: the component constructed over a store that earlier  *)
(* sessions filled, before its mount effect has run                        *)

InitSizes == {0, 20, 21}

InitFrom(st, now, orders, concurrent) ==
    /\ overlap = concurrent
    /\ observer = None
    /\ stats = None
    /\ variant \in Variants
    /\ keyOrder \in orders
    /\ store = st
    /\ clock = now
    /\ ticks = 0
    /\ mounted = FALSE
    /\ loading = FALSE
    /\ response = NoResponse
    /\ statusCode = None
    /\ duration = None
    /\ history = <<>>
    /\ page = 1
    /\ isLoadingHistory = FALSE
    /\ totalCount = 0
    /\ hasMore = FALSE
    /\ showHistory = FALSE
    /\ historyCache = EmptyCache
    /\ tasks = <<>>
    /\ sends = 0
    /\ deletes = 0
    /\ faults = 0

InitWith(st, now, orders) == InitFrom(st, now, orders, FALSE)

\* The newest stored entry was saved at millisecond n, and the clock still
\* shows n.
Init ==
    \E n \in InitSizes, garbage \in BOOLEAN :
        InitWith(SavedStore(n, FALSE, garbage), n, KeyOrders)

-----------------------------------------------------------------------------
(* Scheduling and the choices of the environment *)

\* No call is in flight.
Idle == tasks = <<>>

\* A handler is started while no call is in flight, or, in the runs with
\* overlapping calls, while fewer than MaxTasks are.
MayStart == IF overlap THEN Len(tasks) < MaxTasks ELSE Idle

\* d: the clock advances between the two clock reads of a step.
\* failSet / failList: a synchronous store call of the step throws
\* (localStorage.setItem, the key listing of getRequestKeys).
Choice(d, failSet, failList) ==
    /\ d \in {0, 1}
    /\ d = 1 => ticks < MaxTicks
    /\ failSet \in BOOLEAN
    /\ failList \in BOOLEAN
    /\ (failSet \/ failList) => (variant = "local" /\ faults < MaxFaults)
    /\ ~(failSet /\ failList)

NoChoice(d, failSet, failList) == d = 0 /\ ~failSet /\ ~failList

Bit(b) == IF b THEN 1 ELSE 0

\* A rejected promise of window.storage.
MayReject(fail) ==
    /\ fail \in BOOLEAN
    /\ fail => (variant = "storage" /\ faults < MaxFaults)

\* A sendRequest without its finally block.
CommitWithoutFinally(i, r) ==
    \E v \in {r} :
        /\ SetHist(v.h)
        /\ tasks' = IF i = 0 THEN Started(v.t) ELSE Moved(i, v.t)
        /\ loading' = IF v.t.op = "send" THEN TRUE ELSE loading

\* The effect of a step that ran task i (0: a task just started) up to its
\* next await or to its end: r is the history state, store and task it left.
\* sendRequest's finally block runs when its task ends.
Commit(i, r) ==
    \E v \in {r} :
        /\ SetHist(v.h)
        /\ tasks' = IF i = 0 THEN Started(v.t) ELSE Moved(i, v.t)
        /\ loading' = IF v.t.op = "send" THEN v.t.pc # "done" ELSE loading

Tick ==
    /\ ticks < MaxTicks
    /\ clock' = clock + 1
    /\ ticks' = ticks + 1
    /\ UNCHANGED <<envVars, observer, store, mounted, sendVars, histVars, showHistory,
                   historyCache, tasks, sends, deletes, faults>>

-----------------------------------------------------------------------------
(* Mount, panel, refresh and infinite scroll *)

\* useEffect(() => { loadHistory(1); [loadStats();] }, ..)
Mount(failList) ==
    /\ ~mounted
    /\ Choice(0, FALSE, failList)
    /\ mounted' = TRUE
    /\ Commit(0, LoadCall(Task("mount", ""), Hist, store, failList))
    /\ faults' = faults + Bit(failList)
    /\ UNCHANGED <<envVars, observer, store, clock, ticks, response, statusCode, duration,
                   showHistory, sends, deletes>>

\* onClick={() => setShowHistory(!showHistory)}
ToggleHistory ==
    /\ mounted /\ MayStart
    /\ showHistory' = ~showHistory
    /\ UNCHANGED <<envVars, observer, store, clock, ticks, mounted, sendVars, histVars,
                   historyCache, tasks, sends, deletes, faults>>

\* The Refresh button, disabled while isLoadingHistory.
refreshHistory(failList) ==
    /\ mounted /\ MayStart
    /\ showHistory /\ ~isLoadingHistory
    /\ Choice(0, FALSE, failList)
    /\ Commit(0, LoadCall(Task("refresh", ""), ClearCache(Hist), store, failList))
    /\ faults' = faults + Bit(failList)
    /\ UNCHANGED <<envVars, observer, store, clock, ticks, mounted, response, statusCode,
                   duration, showHistory, sends, deletes>>

\* The sentinel is rendered under a non-empty list while hasMore.
SentinelShown == showHistory /\ hasMore /\ ~(Len(history) = 0 /\ ~isLoadingHistory)

\* A callback that loads the current page again instead of the next one.
IntersectSamePage(failList) ==
    /\ mounted /\ MayStart
    /\ showHistory /\ hasMore /\ ~isLoadingHistory
    /\ SentinelShown
    /\ Choice(0, FALSE, failList)
    /\ Commit(0, LoadCall([Task("scroll", "") EXCEPT !.pageNum = page,
                                                    !.append = TRUE],
                          Hist, store, failList))
    /\ faults' = faults + Bit(failList)
    /\ UNCHANGED <<envVars, observer, store, clock, ticks, mounted, response, statusCode,
                   duration, showHistory, sends, deletes>>

\* The IntersectionObserver callback on an intersecting sentinel; the effect
\* installs the observer only while showHistory, hasMore and not loading.
Intersect(failList) ==
    /\ mounted /\ MayStart
    /\ showHistory /\ hasMore /\ ~isLoadingHistory
    /\ SentinelShown
    /\ Choice(0, FALSE, failList)
    /\ LET nextPage == page + 1
       IN Commit(0, LoadCall([Task("scroll", "") EXCEPT !.pageNum = nextPage,
                                                       !.append = TRUE],
                             [Hist EXCEPT !.page = nextPage], store, failList))
    /\ faults' = faults + Bit(failList)
    /\ UNCHANGED <<envVars, observer, store, clock, ticks, mounted, response, statusCode,
                   duration, showHistory, sends, deletes>>

\* The rows the runs click: the first and the last shown.
ItemTargets == {1, Len(history)} \cap 1..Len(history)

\* onClick={() => loadHistoryItem(item)} on row k: the item seeds the form
\* (the form fields are the request the next sendRequest is given), its
\* response, status and duration are shown, and the panel closes.
loadHistoryItem(k) ==
    /\ mounted /\ MayStart
    /\ showHistory
    /\ k \in ItemTargets
    /\ response' = history[k].response
    /\ statusCode' = Some(history[k].statusCode)
    /\ duration' = Some(history[k].duration)
    /\ showHistory' = FALSE
    /\ UNCHANGED <<envVars, observer, store, clock, ticks, mounted, loading, histVars,
                   historyCache, tasks, sends, deletes, faults>>

\* What the observer effect leaves installed when it runs in the current
\* state: nothing unless showHistory, hasMore and not isLoadingHistory, and
\* else an observer on the sentinel, if rendered, whose callback closes over
\* the page and hasMore of this render. fired counts its callbacks.
Installed ==
    IF showHistory /\ hasMore /\ ~isLoadingHistory /\ SentinelShown
    THEN Some([page |-> page, hasMore |-> hasMore, fired |-> 0])
    ELSE None

\* The values an observer's callback closes over.
Closure(o) == IF o = None THEN None ELSE Some([o[1] EXCEPT !.fired = 0])

\* A render whose effect dependencies changed: the previous observer is
\* cleaned up and the effect runs again.
Render ==
    /\ mounted
    /\ Installed # Closure(observer)
    /\ observer' = Installed
    /\ UNCHANGED <<envVars, store, clock, ticks, mounted, sendVars, histVars,
                   showHistory, historyCache, tasks, sends, deletes, faults>>

\* The callback of the installed observer on an intersecting sentinel, run
\* with the page and hasMore of the render that installed it. The sentinel
\* can intersect only while the panel is shown: a click on the toggle is
\* rendered before any other event is delivered.
IntersectEvent(failList) ==
    /\ mounted /\ MayStart
    /\ showHistory
    /\ observer # None /\ observer[1].hasMore
    /\ observer[1].fired < MaxEvents
    /\ observer' = Some([observer[1] EXCEPT !.fired = @ + 1])
    /\ Choice(0, FALSE, failList)
    /\ LET nextPage == observer[1].page + 1
       IN Commit(0, LoadCall([Task("scroll", "") EXCEPT !.pageNum = nextPage,
                                                       !.append = TRUE],
                             [Hist EXCEPT !.page = nextPage], store, failList))
    /\ faults' = faults + Bit(failList)
    /\ UNCHANGED <<envVars, store, clock, ticks, mounted, response, statusCode,
                   duration, showHistory, sends, deletes>>

\* window.storage.list resolves (or rejects) inside loadHistory.
LoadListed(i, fail) ==
    /\ i \in 1..Len(tasks)
    /\ tasks[i].pc = "list"
    /\ MayReject(fail)
    /\ Commit(i, IF fail
                 THEN AfterLoad(tasks[i], LoadFailed(Hist), store)
                 ELSE [h |-> Hist,
                       t |-> [tasks[i] EXCEPT
                                 !.pc = "get",
                                 !.keys = getRequestKeys(store, keyOrder)]])
    /\ faults' = faults + Bit(fail)
    /\ UNCHANGED <<envVars, observer, store, clock, ticks, mounted, response, statusCode,
                   duration, showHistory, sends, deletes>>

\* Promise.all over the per-key reads resolves inside loadHistory.
LoadJoined(i) ==
    /\ i \in 1..Len(tasks)
    /\ tasks[i].pc = "get"
    /\ LET t == tasks[i]
           historyData == IF variant = "storage" THEN ReadItems(store, t.keys)
                          ELSE t.data
       IN Commit(i, AfterLoad(t, LoadFinish(t, Hist, historyData), store))
    /\ UNCHANGED <<envVars, observer, store, clock, ticks, mounted, response, statusCode,
                   duration, showHistory, sends, deletes, faults>>

\* Promise.all over the sampled reads resolves inside loadStats.
StatsJoined(i) ==
    /\ i \in 1..Len(tasks)
    /\ tasks[i].pc = "stats"
    /\ Commit(i, StatsFinish(tasks[i], Hist))
    /\ UNCHANGED <<envVars, observer, store, clock, ticks, mounted, response, statusCode,
                   duration, showHistory, sends, deletes, faults>>

-----------------------------------------------------------------------------
(* deleteHistoryItem and clearAllHistory *)

Ids(items) == {items[k].id : k \in 1..Len(items)}

\* The rows whose delete button the runs press: the first and the last shown.
DeleteTargets == {history[k].id : k \in {1, Len(history)} \cap 1..Len(history)}

\* deleteHistoryItem(id) up to its first await: Api.jsx awaits the delete,
\* Api1.jsx has removed the key and is reading for the reload.
deleteHistoryItem(id, failList) ==
    /\ mounted /\ MayStart
    /\ showHistory
    /\ id \in DeleteTargets
    /\ sends + deletes < MaxMutations
    /\ Choice(0, FALSE, failList)
    /\ deletes' = deletes + 1
    /\ LET t == [Task("delete", "del") EXCEPT !.target = id]
           st == Without(store, {id})
       IN IF variant = "storage"
          THEN /\ store' = store
               /\ Commit(0, [h |-> Hist, t |-> t])
          ELSE /\ store' = st
               /\ Commit(0, LoadCall(t, ClearCache(Hist), st, failList))
    /\ faults' = faults + Bit(failList)
    /\ UNCHANGED <<envVars, observer, clock, ticks, mounted, response, statusCode,
                   duration, showHistory, sends>>

\* window.storage.delete resolves (or rejects) inside deleteHistoryItem.
DeleteSettled(i, fail) ==
    /\ i \in 1..Len(tasks)
    /\ tasks[i].pc = "del"
    /\ MayReject(fail)
    /\ LET st == Without(store, {tasks[i].target})
       IN IF fail
          THEN /\ store' = store
               /\ Commit(i, [h |-> Hist, t |-> Done(tasks[i])])
          ELSE /\ store' = st
               /\ Commit(i, LoadCall(tasks[i], ClearCache(Hist), st, FALSE))
    /\ faults' = faults + Bit(fail)
    /\ UNCHANGED <<envVars, observer, clock, ticks, mounted, response, statusCode,
                   duration, showHistory, sends, deletes>>

\* A reset that leaves out setTotalCount(0).
ClearResetKeepsCount(h) ==
    [ClearCache(h) EXCEPT !.history = <<>>, !.hasMore = FALSE]

\* Clear cache and reset: the state clearAllHistory sets after its deletes.
ClearReset(h) ==
    [ClearCache(h) EXCEPT !.history = <<>>, !.totalCount = 0, !.hasMore = FALSE]

\* clearAllHistory up to its first await. The button shows over a non-empty
\* list. Api1.jsx has removed every key and goes on to loadStats.
clearAllHistory ==
    /\ mounted /\ MayStart
    /\ showHistory /\ Len(history) > 0
    /\ LET t == Task("clear", "clist")
           st == Without(store, DOMAIN store)
       IN IF variant = "storage"
          THEN /\ store' = store
               /\ Commit(0, [h |-> Hist, t |-> t])
          ELSE /\ store' = st
               /\ Commit(0, StatsCall(t, ClearReset(Hist), st))
    /\ UNCHANGED <<envVars, observer, clock, ticks, mounted, response, statusCode,
                   duration, showHistory, sends, deletes, faults>>

\* window.storage.list resolves (or rejects) inside clearAllHistory; the
\* deletes are issued for the keys listed.
ClearListed(i, fail) ==
    /\ i \in 1..Len(tasks)
    /\ tasks[i].pc = "clist"
    /\ MayReject(fail)
    /\ Commit(i, [h |-> Hist,
                  t |-> IF fail THEN Done(tasks[i])
                        ELSE [tasks[i] EXCEPT
                                 !.pc = "cdel",
                                 !.keys = getRequestKeys(store, keyOrder)]])
    /\ faults' = faults + Bit(fail)
    /\ UNCHANGED <<envVars, observer, store, clock, ticks, mounted, response, statusCode,
                   duration, showHistory, sends, deletes>>

Range(s) == {s[k] : k \in 1..Len(s)}

\* Promise.all over the deletes resolves, or rejects because the delete of
\* the first key listed was rejected (the others were still carried out).
ClearDeleted(i, fail) ==
    /\ i \in 1..Len(tasks)
    /\ tasks[i].pc = "cdel"
    /\ MayReject(fail)
    /\ fail => tasks[i].keys # <<>>
    /\ LET keys == tasks[i].keys
       IN IF fail
          THEN /\ store' = Without(store, Range(keys) \ {keys[1]})
               /\ Commit(i, [h |-> Hist, t |-> Done(tasks[i])])
          ELSE /\ store' = Without(store, Range(keys))
               /\ Commit(i, [h |-> ClearReset(Hist), t |-> Done(tasks[i])])
    /\ faults' = faults + Bit(fail)
    /\ UNCHANGED <<envVars, observer, clock, ticks, mounted, response, statusCode,
                   duration, showHistory, sends, deletes>>

-----------------------------------------------------------------------------
(* sendRequest *)

\* The statements from a computed outcome to saveToHistory's first await:
\* the outcome is shown (setResponse, setStatusCode, setDuration), the
\* history item is built with the status saved, and saveToHistory runs.
ShowAndSave(i, t, shown, saved, dur, resp, d, failSet, failList) ==
    LET item == Entry(0 - 1, 0 - 1, t.req.method, saved, dur, resp)
        r == SaveCall([t EXCEPT !.item = item], Hist, clock, clock + d,
                      failSet, failList)
    IN /\ response' = resp
       /\ statusCode' = Some(shown)
       /\ duration' = Some(dur)
       /\ store' = r.store
       /\ Commit(i, r)
       /\ clock' = clock + d
       /\ ticks' = ticks + d
       /\ faults' = faults + Bit(failSet) + Bit(failList)

\* The catch block of sendRequest.
Catch(i, t, error, d, failSet, failList) ==
    ShowAndSave(i, [t EXCEPT !.error = error],
                ShownErrorStatus(variant, error), SavedErrorStatus(error),
                clock - t.startTime, ErrorResponse(error), d, failSet, failList)

\* The Send button, disabled while loading: sendRequest up to its first
\* await, which is fetch when the request validates and saveToHistory's
\* otherwise.
sendRequest(req, limit, d, failSet, failList) ==
    /\ mounted /\ MayStart
    /\ ~loading
    /\ sends + deletes < limit
    /\ sends' = sends + 1
    /\ LET t == [Task("send", "fetch") EXCEPT !.req = req, !.startTime = clock]
           message == Validate(req)
       IN IF message = ""
          THEN /\ NoChoice(d, failSet, failList)
               /\ loading' = TRUE
               /\ response' = NoResponse
               /\ statusCode' = None
               /\ duration' = None
               /\ tasks' = Append(tasks, t)
               /\ UNCHANGED <<store, histVars, historyCache, clock, ticks, faults>>
          ELSE /\ Choice(d, failSet, failList)
               /\ Catch(0, t, ValidationError(message), d, failSet, failList)
    /\ UNCHANGED <<envVars, observer, mounted, showHistory, deletes>>

\* fetch resolves with a response: the duration is taken and the body read
\* is awaited.
FetchResolved(i, srv) ==
    /\ i \in 1..Len(tasks)
    /\ tasks[i].pc = "fetch"
    /\ tasks' = [tasks EXCEPT ![i] = [tasks[i] EXCEPT
                                          !.pc = "body", !.srv = srv,
                                          !.requestDuration = clock - tasks[i].startTime]]
    /\ UNCHANGED <<envVars, observer, store, clock, ticks, mounted, sendVars, histVars,
                   showHistory, historyCache, sends, deletes, faults>>

\* fetch rejects: no response was received.
FetchRejected(i, error, d, failSet, failList) ==
    /\ i \in 1..Len(tasks)
    /\ tasks[i].pc = "fetch"
    /\ Choice(d, failSet, failList)
    /\ Catch(i, tasks[i], error, d, failSet, failList)
    /\ UNCHANGED <<envVars, observer, mounted, showHistory, sends, deletes>>

\* A success path that shows the server's status and saves 400.
BodyReadSaves400(i, d, failSet, failList) ==
    /\ i \in 1..Len(tasks)
    /\ tasks[i].pc = "body"
    /\ ~BodyReadFails(tasks[i].srv)
    /\ Choice(d, failSet, failList)
    /\ LET t == tasks[i]
       IN ShowAndSave(i, t, t.srv.status, 400, t.requestDuration,
                      FormatResponse(ResponseData(t.srv)), d, failSet, failList)
    /\ UNCHANGED <<envVars, observer, mounted, showHistory, sends, deletes>>

\* response.json() / response.text() resolves: the success path.
BodyRead(i, d, failSet, failList) ==
    /\ i \in 1..Len(tasks)
    /\ tasks[i].pc = "body"
    /\ ~BodyReadFails(tasks[i].srv)
    /\ Choice(d, failSet, failList)
    /\ LET t == tasks[i]
       IN ShowAndSave(i, t, t.srv.status, t.srv.status, t.requestDuration,
                      FormatResponse(ResponseData(t.srv)), d, failSet, failList)
    /\ UNCHANGED <<envVars, observer, mounted, showHistory, sends, deletes>>

\* response.json() rejects: a response was received, a later step failed.
BodyRejected(i, d, failSet, failList) ==
    /\ i \in 1..Len(tasks)
    /\ tasks[i].pc = "body"
    /\ BodyReadFails(tasks[i].srv)
    /\ Choice(d, failSet, failList)
    /\ Catch(i, tasks[i], BodyError, d, failSet, failList)
    /\ UNCHANGED <<envVars, observer, mounted, showHistory, sends, deletes>>

\* A saveToHistory without its try/catch: the rejection of
\* window.storage.set reaches the catch block of sendRequest.
SetSettledRethrows(i, fail) ==
    /\ i \in 1..Len(tasks)
    /\ tasks[i].pc = "set"
    /\ MayReject(fail)
    /\ IF fail
       THEN /\ Catch(i, tasks[i], [message |-> "storage rejected", name |-> "Error"],
                     0, FALSE, FALSE)
            /\ UNCHANGED <<envVars, observer, mounted, showHistory, sends, deletes>>
       ELSE LET t == [tasks[i] EXCEPT !.pageNum = 1, !.append = FALSE]
                st == Put(store, t.item.id, Serialize(t.item))
            IN /\ store' = st
               /\ Commit(i, LoadCall(t, ClearCache(Hist), st, FALSE))
               /\ faults' = faults
               /\ UNCHANGED <<envVars, observer, clock, ticks, mounted, response,
                              statusCode, duration, showHistory, sends, deletes>>

\* window.storage.set resolves (or rejects) inside saveToHistory.
SetSettled(i, fail) ==
    /\ i \in 1..Len(tasks)
    /\ tasks[i].pc = "set"
    /\ MayReject(fail)
    /\ LET t == [tasks[i] EXCEPT !.pageNum = 1, !.append = FALSE]
           st == Put(store, t.item.id, Serialize(t.item))
       IN IF fail
          THEN /\ store' = store
               /\ Commit(i, [h |-> Hist, t |-> Done(t)])
          ELSE /\ store' = st
               /\ Commit(i, LoadCall(t, ClearCache(Hist), st, FALSE))
    /\ faults' = faults + Bit(fail)
    /\ UNCHANGED <<envVars, observer, clock, ticks, mounted, response, statusCode,
                   duration, showHistory, sends, deletes>>

-----------------------------------------------------------------------------
(* The specifications *)

\* The store settles a read of loadHistory or loadStats, or a write of
\* saveToHistory.
SettleLoad ==
    \E i \in 1..Len(tasks) :
        \/ \E fail \in BOOLEAN : LoadListed(i, fail)
        \/ LoadJoined(i)
        \/ StatsJoined(i)
        \/ \E fail \in BOOLEAN : SetSettled(i, fail)

\* The store settles a removal.
SettleRemoval ==
    \E i \in 1..Len(tasks) :
        \/ \E fail \in BOOLEAN : DeleteSettled(i, fail)
        \/ \E fail \in BOOLEAN : ClearListed(i, fail)
        \/ \E fail \in BOOLEAN : ClearDeleted(i, fail)

\* The network settles a request, or the body read settles.
SettleRequest(servers, errors) ==
    \E i \in 1..Len(tasks) :
        \/ \E srv \in servers : FetchResolved(i, srv)
        \/ \E error \in errors, d \in {0, 1}, failSet, failList \in BOOLEAN :
               FetchRejected(i, error, d, failSet, failList)
        \/ \E d \in {0, 1}, failSet, failList \in BOOLEAN :
               \/ BodyRead(i, d, failSet, failList)
               \/ BodyRejected(i, d, failSet, failList)

Send(requests, limit) ==
    \E req \in requests, d \in {0, 1}, failSet, failList \in BOOLEAN :
        sendRequest(req, limit, d, failSet, failList)

\* The history subsystem: its entries are saved by requests that fail
\* validation, which reach saveToHistory without a network round trip.
FailingRequests ==
    {[method |-> "GET", headers |-> "bad", body |-> "blank", url |-> "ok"]}

Next ==
    \/ Tick
    \/ \E failList \in BOOLEAN : Mount(failList)
    \/ ToggleHistory
    \/ \E failList \in BOOLEAN : refreshHistory(failList)
    \/ \E failList \in BOOLEAN : Intersect(failList)
    \/ \E id \in DeleteTargets, failList \in BOOLEAN : deleteHistoryItem(id, failList)
    \/ clearAllHistory
    \/ \E k \in ItemTargets : loadHistoryItem(k)
    \/ Send(FailingRequests, MaxMutations)
    \/ SettleLoad
    \/ SettleRemoval

Spec == Init /\ [][Next]_vars

\* sendRequest on every kind of input and every kind of answer, over a
\* small store.
Requests ==
    [method : {"GET", "POST"}, headers : {"json", "bad"},
     body : {"blank", "json", "bad"}, url : {"blank", "bad", "ok"}]
Servers ==
    {[status |-> st, ctype |-> b[1], body |-> b[2]] :
        st \in {200, 404},
        b \in {<<"application/json", "object">>,
               <<"application/json", "malformed">>, <<"text/html", "<html>">>}}

InitSend == InitWith(SavedStore(1, FALSE, FALSE), 1, {"asc"})

NextSend ==
    \/ Tick
    \/ \E failList \in BOOLEAN : Mount(failList)
    \/ Send(Requests, MaxSends)
    \/ SettleLoad
    \/ SettleRequest(Servers, FetchErrors)

SpecSend == InitSend /\ [][NextSend]_vars

\* The same runs when every pending fetch, body read and store operation
\* eventually settles, by resolving or by rejecting: a promise that stays
\* pending forever is excluded, nothing else is.
SpecSendFair ==
    /\ SpecSend
    /\ WF_vars(SettleLoad)
    /\ WF_vars(SettleRequest(Servers, FetchErrors))

\* Calls that overlap: a handler starts while earlier calls are suspended at
\* their awaits, renders and intersection events interleave with the
\* settling of the store, over a store of one full page and one more entry.
InitAsync ==
    InitFrom(SavedStore(ITEMS_PER_PAGE + 1, FALSE, FALSE), ITEMS_PER_PAGE + 1,
             {"asc"}, TRUE)

NextAsync ==
    \/ \E failList \in BOOLEAN : Mount(failList)
    \/ ToggleHistory
    \/ Render
    \/ \E failList \in BOOLEAN : IntersectEvent(failList)
    \/ Send(FailingRequests, MaxAsyncSends)
    \/ SettleLoad

SpecAsync == InitAsync /\ [][NextAsync]_vars

\* Lazy loading on its own: the component is mounted over a store of up to
\* two full pages and one more entry, the panel is opened and stays open,
\* the sentinel intersects whenever it is shown, and nothing changes the
\* store. A load may start while the mount effect's calls are in flight.
ScrollSizes ==
    {0, 1, ITEMS_PER_PAGE, ITEMS_PER_PAGE + 1, 2 * ITEMS_PER_PAGE, 2 * ITEMS_PER_PAGE + 1}

InitScroll ==
    \E n \in ScrollSizes, garbage \in BOOLEAN :
        InitFrom(SavedStore(n, FALSE, garbage), n, KeyOrders, TRUE)

OpenHistory == ~showHistory /\ ToggleHistory

Scroll == \E failList \in BOOLEAN : Intersect(failList)

NextScroll ==
    \/ \E failList \in BOOLEAN : Mount(failList)
    \/ OpenHistory
    \/ Scroll
    \/ SettleLoad

\* The sentinel keeps intersecting: a callback that stays enabled runs. Every
\* store read settles, by resolving or by rejecting.
SpecScroll ==
    /\ InitScroll /\ [][NextScroll]_vars
    /\ WF_vars(Scroll)
    /\ WF_vars(SettleLoad)

\* loadHistory's page computation applied to a fixed store, page after page
\* from page 1 while hasMore, the pages concatenated as the append of the
\* infinite scroll concatenates them.
InitPages ==
    \E n \in 0..MaxEntries, paired, garbage \in BOOLEAN :
        InitWith(SavedStore(n, paired, garbage), n, KeyOrders)

LoadNextPage ==
    /\ ~mounted \/ hasMore
    /\ LET pageNum == IF mounted THEN page + 1 ELSE 1
           r == LoadPage(ReadItems(store, getRequestKeys(store, keyOrder)), pageNum)
       IN /\ page' = pageNum
          /\ history' = history \o r.items
          /\ totalCount' = r.total
          /\ hasMore' = r.hasMore
    /\ mounted' = TRUE
    /\ UNCHANGED <<envVars, observer, store, clock, ticks, sendVars, isLoadingHistory,
                   stats, showHistory, historyCache, tasks, sends, deletes, faults>>

SpecPages == InitPages /\ [][LoadNextPage]_vars

\* loadStats as the Stats button calls it while no statistics are held
\* (if (!stats) loadStats()), over stores of a few arbitrary entries and
\* over stores around the size of its sample.
StatsMethods == {"GET", "POST", "PUT", "DELETE"}
StatsDurations == {NoDuration, 1}

\* Entries 1..n, entry k with method ms[k] and duration ds[k].
StoreOf(n, ms, ds) ==
    [k \in 1..n |-> Serialize(Entry(k, k, ms[k], 200, ds[k], Raw("ok")))]

\* The store of the example: durations 100, 200 and 300.
ExampleStore ==
    StoreOf(3, <<"GET", "POST", "GET">>, <<100, 200, 300>>)

\* n entries saved in milliseconds 1..n, the entry saved at k with duration
\* k; with garbage = TRUE key 0 holds a string that does not parse.
AgedStore(n, garbage) ==
    [k \in (1..n) \cup (IF garbage THEN {0} ELSE {}) |->
        IF k = 0 THEN Garbage
        ELSE Serialize(Entry(k, k, "GET", 200, k, Raw("ok")))]

InitStats ==
    /\ variant = "local"
    /\ \/ \E n \in 0..MaxStatsLen :
              \E ms \in [1..n -> StatsMethods], ds \in [1..n -> StatsDurations] :
                  InitWith(StoreOf(n, ms, ds), n, {"asc"})
       \/ InitWith(ExampleStore, 3, KeyOrders)
       \/ \E n \in (RECENT_KEYS - 1)..(RECENT_KEYS + MaxOlder), garbage \in BOOLEAN :
              InitWith(AgedStore(n, garbage), n, KeyOrders)

loadStats ==
    /\ stats = None /\ Idle
    /\ Commit(0, StatsCall(Task("stats", ""), Hist, store))
    /\ UNCHANGED <<envVars, observer, store, clock, ticks, mounted, response,
                   statusCode, duration, showHistory, sends, deletes, faults>>

NextStats ==
    \/ loadStats
    \/ \E i \in 1..Len(tasks) : StatsJoined(i)

SpecStats == InitStats /\ [][NextStats]_vars

-----------------------------------------------------------------------------
(* The history store and its paginated loads                               *)

Descending(items) ==
    \A k \in 1..(Len(items) - 1) : items[k].timestamp >= items[k + 1].timestamp

Occurrences(items, x) == Cardinality({k \in 1..Len(items) : items[k] = x})

\* Task i ends in this step.
Ends(i) == i \in 1..Len(tasks) /\ tasks' = RemoveAt(tasks, i)

\* C1: whatever saves have completed, the displayed entries are in
\* non-increasing timestamp order: each displayed entry's timestamp is at
\* least that of the entry below it. This holds of every list the loads
\* display, the list a loadHistory(1) displays after the saves among them.
C1_NewestFirst == Descending(history)

\* Two requests were saved in different milliseconds and the reload after the
\* second shows both, the later one above the earlier one.
C1_TwoSavesShown ==
    /\ Idle /\ sends = 2 /\ Len(history) >= 2
    /\ history[1].statusCode = 400 /\ history[2].statusCode = 400
    /\ history[1].timestamp > history[2].timestamp

\* C2: over a fixed store, the pages 1, 2, .. loaded until hasMore is false
\* never repeat an entry, page n brings the list to min(n * 20, count)
\* entries, and when hasMore is false the concatenation is in non-increasing
\* timestamp order and holds every parseable entry of the store exactly once.
C2_PagesPartition ==
    mounted =>
        /\ \A key \in ParseableKeys(store) :
               Occurrences(history, store[key].item) <= 1
        /\ Len(history) = Min(page * ITEMS_PER_PAGE,
                              Cardinality(ParseableKeys(store)))
        /\ ~hasMore =>
               /\ Descending(history)
               /\ Len(history) = Cardinality(ParseableKeys(store))
               /\ \A key \in ParseableKeys(store) :
                      Occurrences(history, store[key].item) = 1

\* Three pages were loaded and the third one, a partial page, ended the run.
C2_ThreePagesLoaded ==
    /\ mounted /\ ~hasMore /\ page = 3
    /\ Len(history) > 2 * ITEMS_PER_PAGE
    /\ \E k \in 1..(Len(history) - 1) : history[k].timestamp = history[k + 1].timestamp

\* A load of page 1 that finds no key returns before its first await
\* (Api1.jsx): the handler that called it is the whole step.
LoadsNothing ==
    /\ variant = "local" /\ Idle /\ tasks' = <<>> /\ DOMAIN store' = {}
    /\ \/ Mount(FALSE)
       \/ refreshHistory(FALSE)
       \/ \E id \in DeleteTargets : deleteHistoryItem(id, FALSE)

\* C3: when a store-reading load of page n completes without error, the
\* totalCount it sets is the number of parseable entries in the store and
\* the hasMore it sets is true exactly when n * 20 < that totalCount.
C3_HasMoreIffBeyondPage ==
    [][/\ \A i \in 1..Len(tasks) :
              LoadJoined(i) =>
                  /\ totalCount' = Cardinality(ParseableKeys(store))
                  /\ hasMore' = (tasks[i].pageNum * ITEMS_PER_PAGE < totalCount')
       /\ LoadsNothing =>
              /\ totalCount' = 0
              /\ hasMore' = (1 * ITEMS_PER_PAGE < totalCount')]_vars

\* Page 1 of 21 entries was loaded: 20 entries shown and more to come.
C3_FullPageOfMore ==
    /\ mounted /\ Idle /\ page = 1 /\ hasMore
    /\ totalCount = ITEMS_PER_PAGE + 1 /\ Len(history) = ITEMS_PER_PAGE

\* C4: when the reload of page 1 that follows a completed save completes,
\* with no store failure in the run, the entry just saved is the first entry
\* displayed, whatever the store held before.
C4_SavedEntryFirst ==
    [][\A i \in 1..Len(tasks) :
           (tasks[i].op = "send" /\ LoadJoined(i) /\ faults' = 0) =>
               (history' # <<>> /\ history'[1] = tasks[i].item)]_vars

\* deleteHistoryItem(id), started on store st with count shown, has completed
\* in this step with no store failure in the run.
DeleteCompleted(id, st, count) ==
    /\ faults' = 0
    /\ id \in DOMAIN st
    /\ id \notin Ids(history')
    /\ totalCount' = count - 1
    /\ store' = Without(st, {id})

\* C5: when a delete of an entry of the store and the reload of page 1 that
\* follows it have completed, with no store failure, the deleted entry is not
\* displayed, totalCount is one less than before the delete, and the store
\* holds every other record unchanged.
C5_DeleteRemovesOne ==
    [][/\ \A i \in 1..Len(tasks) :
              (tasks[i].op = "delete" /\ Ends(i) /\ faults' = 0) =>
                  DeleteCompleted(tasks[i].target, tasks[i].before.store,
                                  tasks[i].before.totalCount)
       /\ \A id \in DeleteTargets :
              (Idle /\ tasks' = <<>> /\ deleteHistoryItem(id, FALSE) /\ faults' = 0) =>
                  DeleteCompleted(id, store, totalCount)]_vars

\* clearAllHistory runs to its end without a store failure in this step.
ClearCompletes ==
    \/ \E i \in 1..Len(tasks) : ClearDeleted(i, FALSE)
    \/ variant = "local" /\ clearAllHistory

\* A store-reading loadHistory(1) completes in this step.
FirstPageLoaded ==
    \/ \E i \in 1..Len(tasks) :
           tasks[i].pageNum = 1 /\ ~tasks[i].append /\ LoadJoined(i)
    \/ LoadsNothing

\* C6: when clearAllHistory completes without a store failure, the store
\* holds no request key, history is empty, totalCount is 0, hasMore is false,
\* page is 1 and the page cache is empty; and a loadHistory(1) on the store so
\* left shows an empty history and totalCount 0.
C6_ClearResetsAll ==
    [][/\ ClearCompletes =>
              /\ DOMAIN store' = {}
              /\ history' = <<>> /\ totalCount' = 0 /\ ~hasMore' /\ page' = 1
              /\ historyCache' = EmptyCache
       /\ (DOMAIN store = {} /\ FirstPageLoaded) =>
              (history' = <<>> /\ totalCount' = 0)]_vars

\* A store of 20 or more entries was cleared (nothing else empties it
\* without a delete) and a page 1 loaded afterwards is in the cache.
C6_ClearedThenReloaded ==
    /\ Idle /\ DOMAIN store = {} /\ deletes = 0 /\ clock >= ITEMS_PER_PAGE
    /\ 1 \in DOMAIN historyCache
    /\ history = <<>> /\ totalCount = 0 /\ ~hasMore /\ page = 1

\* Page n as the current store gives it.
PageOfStore(n) == LoadPage(ReadItems(store, getRequestKeys(store, keyOrder)), n)

\* C11: every cached page is reconstructible from the store: for each page
\* number n in the page cache, the cached items and hasMore are those page
\* n of the current store content has.
C11_CacheReconstructible ==
    \A n \in DOMAIN historyCache :
        /\ historyCache[n].items = PageOfStore(n).items
        /\ historyCache[n].hasMore = PageOfStore(n).hasMore

\* The step has issued a page-1 load that takes its result from the store
\* as the step left it: the load awaits the key listing, or has read every
\* key of that store, or has already shown the empty list of an empty store
\* or of a failed listing.
LoadReadsStore ==
    \/ /\ tasks' # <<>>
       /\ Last(tasks').pageNum = 1
       /\ \/ Last(tasks').pc = "list"
          \/ /\ Last(tasks').pc = "get"
             /\ Last(tasks').data =
                    ReadItems(store', getRequestKeys(store', keyOrder))
    \/ /\ history' = <<>>
       /\ DOMAIN store' = {} \/ faults' > faults

\* The step completes clearAllHistory's deletes.
ClearSucceeds ==
    \/ variant = "local" /\ clearAllHistory
    \/ \E i \in 1..Len(tasks) : ClearDeleted(i, FALSE)

\* C12: every successful mutation of the store (a save, a delete, a clear
\* all whose deletes all succeed) leaves the page cache empty in the step
\* that follows the store write, and the page-1 load a save or a delete
\* issues in that step reads the store, not the cache.
C12_CacheEmptiedOnMutation ==
    [][(store' # store /\ ~(\E i \in 1..Len(tasks) : ClearDeleted(i, TRUE))) =>
           /\ historyCache' = EmptyCache
           /\ ClearSucceeds \/ LoadReadsStore]_vars

\* A save or a delete has written the store while page 1 was cached: the
\* cache is empty and the reload is in flight.
C12_ReloadAfterMutation ==
    /\ tasks # <<>> /\ tasks[1].op \in {"send", "delete"}
    /\ tasks[1].pc \in {"list", "get"}
    /\ store # tasks[1].before.store
    /\ Len(history) = ITEMS_PER_PAGE
    /\ historyCache = EmptyCache

\* Task t is a loadHistory call whose reads are outstanding.
Fetching(t) == t.pc \in {"list", "get"}

\* The step has issued an append load that takes its page from the store:
\* it awaits the key listing, or has read every key, or (Api1.jsx) the key
\* listing threw and the empty list is shown.
AppendReadsStore ==
    \/ /\ Len(tasks') = Len(tasks) + 1
       /\ Last(tasks').append
       /\ \/ Last(tasks').pc = "list"
          \/ /\ Last(tasks').pc = "get"
             /\ Last(tasks').data =
                    ReadItems(store, getRequestKeys(store, keyOrder))
    \/ variant = "local" /\ faults' > faults /\ history' = <<>>

\* C13: a loadHistory call with append = true never takes its result from
\* the page cache: every call the infinite scroll makes reads the store,
\* whether or not its page number is cached.
C13_AppendBypassesCache ==
    [][\A failList \in BOOLEAN :
           IntersectEvent(failList) => AppendReadsStore]_vars

\* A scroll load is reading the store for a page that was in the cache when
\* it was called.
C13_CachedPageRequested ==
    \E i \in 1..Len(tasks) :
        /\ tasks[i].op = "scroll" /\ tasks[i].append
        /\ Fetching(tasks[i])
        /\ tasks[i].pageNum \in tasks[i].before.cached

\* C14: the infinite-scroll trigger issues loadHistory(page + 1, true) only
\* in states where the panel is open, hasMore is true, isLoadingHistory is
\* false and no history fetch is outstanding, and it issues one fetch.
C14_ScrollFetchGuarded ==
    [][\A failList \in BOOLEAN :
           IntersectEvent(failList) =>
               /\ showHistory /\ hasMore /\ ~isLoadingHistory
               /\ \A i \in 1..Len(tasks) : ~Fetching(tasks[i])
               /\ Len(tasks') <= Len(tasks) + 1]_vars

\* C15: there are never two outstanding append fetches for the same page
\* number.
C15_NoDuplicateAppend ==
    \A i, j \in 1..Len(tasks) :
        (/\ i # j
         /\ tasks[i].append /\ tasks[j].append
         /\ Fetching(tasks[i]) /\ Fetching(tasks[j])) =>
            tasks[i].pageNum # tasks[j].pageNum

\* The page a completing load shows: the whole list, or what an append
\* added to it.
PageShown(t) ==
    IF t.append /\ t.pageNum > 1
    THEN SubSeq(history', Len(history) + 1, Len(history')) ELSE history'

Max(a, b) == IF a > b THEN a ELSE b

\* C16: a load over a store holding a record that does not parse completes,
\* and what it shows is made of the parseable records only: totalCount is
\* their number, the page has the length of slice n of that many entries,
\* its entries are distinct parseable records in non-increasing timestamp
\* order, and page 1 leaves out no record newer than one it shows.
C16_UnparseableSkipped ==
    [][\A i \in 1..Len(tasks) :
           (LoadJoined(i) /\ ParseableKeys(store) # DOMAIN store) =>
               LET items == {store[k].item : k \in ParseableKeys(store)}
                   shown == PageShown(tasks[i])
                   n == tasks[i].pageNum
               IN /\ ~isLoadingHistory'
                  /\ totalCount' = Cardinality(items)
                  /\ Len(shown) = Max(0, Min(ITEMS_PER_PAGE,
                                           Cardinality(items) - (n - 1) * ITEMS_PER_PAGE))
                  /\ \A k \in 1..Len(shown) :
                         shown[k] \in items /\ Occurrences(shown, shown[k]) = 1
                  /\ Descending(shown)
                  /\ n = 1 => \A x \in items \ Range(shown) :
                                  x.timestamp <= Last(shown).timestamp]_vars

\* Api.jsx has loaded page 1 of a store of 21 entries and one record that
\* does not parse: 20 entries shown, 21 counted, 22 keys stored.
C16_PageLoadedBesideGarbage ==
    /\ variant = "storage" /\ mounted /\ Idle
    /\ 0 \in DOMAIN store /\ ~store[0].json
    /\ Cardinality(DOMAIN store) = ITEMS_PER_PAGE + 2
    /\ Len(history) = ITEMS_PER_PAGE /\ totalCount = ITEMS_PER_PAGE + 1 /\ hasMore

\* loadStats has been called after the load: it is in flight, or it found no
\* key and has set the empty statistics.
StatsFollowed(i) ==
    \/ i \in 1..Len(tasks') /\ tasks'[i].pc = "stats"
    \/ DOMAIN store' = {} /\ stats' = Some(EmptyStats)

\* C17: when the key listing of a history load fails, loadHistory catches
\* the failure: history becomes the empty list and isLoadingHistory false,
\* and the caller goes on (Api1.jsx's save, delete and refresh go on to
\* loadStats).
C17_LoadFailureCaught ==
    [][/\ \A i \in 1..Len(tasks) :
              LoadListed(i, TRUE) => (history' = <<>> /\ ~isLoadingHistory')
       /\ (Mount(TRUE) \/ refreshHistory(TRUE) \/ Intersect(TRUE)) =>
              (history' = <<>> /\ ~isLoadingHistory')
       /\ (Idle /\ refreshHistory(TRUE)) => StatsFollowed(1)
       /\ \A id \in DeleteTargets :
              (Idle /\ deleteHistoryItem(id, TRUE)) =>
                  (history' = <<>> /\ ~isLoadingHistory' /\ StatsFollowed(1))
       /\ \A req \in FailingRequests, d \in {0, 1} :
              (Idle /\ sendRequest(req, MaxMutations, d, FALSE, TRUE)) =>
                  (history' = <<>> /\ ~isLoadingHistory' /\ StatsFollowed(1))]_vars

\* A key listing has failed: nothing is shown although the store holds 20
\* or more entries, and no load is marked in flight.
C17_FailedLoadShowsNothing ==
    /\ mounted /\ Idle /\ faults = 1 /\ sends = 0 /\ deletes = 0
    /\ Cardinality(DOMAIN store) >= ITEMS_PER_PAGE
    /\ history = <<>> /\ ~isLoadingHistory

-----------------------------------------------------------------------------
(* sendRequest's outcomes and the entries it persists                      *)

\* The inputs the validation is to refuse: headers that are not JSON, a body
\* that is not JSON under POST, PUT or PATCH, an empty or malformed URL.
Invalid(req) ==
    \/ req.headers = "bad"
    \/ req.method \in {"POST", "PUT", "PATCH"} /\ req.body = "bad"
    \/ req.url \in {"blank", "bad"}

\* saveToHistory's write has been carried out for send task t, whose reload
\* is in flight.
Saved(t) == t.op = "send" /\ t.pc \in {"list", "get", "stats"}

\* The store holds t's item under its id.
Persisted(t) ==
    t.item.id \in DOMAIN store /\ store[t.item.id] = Serialize(t.item)

\* Since t started, the store changed under the key of t's item and under
\* no other key.
WroteOneKey(t) ==
    /\ DOMAIN store = DOMAIN t.before.store \cup {t.item.id}
    /\ \A k \in DOMAIN store \ {t.item.id} : store[k] = t.before.store[k]

\* C7: a sendRequest call on invalid input is never awaiting fetch or a
\* body read and has received no response; the item it builds has statusCode
\* 400; until saveToHistory's write the store is as the call found it, and
\* once the write has succeeded the store holds that item and differs from
\* the store the call found in that one key only.
C7_ValidationShortCircuits ==
    \A i \in 1..Len(tasks) :
        LET t == tasks[i]
        IN (t.op = "send" /\ Invalid(t.req)) =>
               /\ t.pc \notin {"fetch", "body"}
               /\ t.srv = NoServer
               /\ t.item.statusCode = 400
               /\ t.pc = "set" => store = t.before.store
               /\ Saved(t) => (Persisted(t) /\ WroteOneKey(t))

\* A request with a malformed URL was refused and its entry is in the store.
C7_MalformedUrlSaved ==
    \E i \in 1..Len(tasks) :
        /\ tasks[i].req.url = "bad" /\ tasks[i].req.headers = "json"
        /\ Saved(tasks[i]) /\ Persisted(tasks[i])
        /\ store[tasks[i].item.id].item.statusCode = 400

\* C8: the entry persisted for a send whose fetch was rejected (no response
\* received) has statusCode 0.
C8_NetworkFailureSavedAsZero ==
    \A i \in 1..Len(tasks) :
        (Saved(tasks[i]) /\ tasks[i].error \in FetchErrors) =>
            (Persisted(tasks[i]) /\ store[tasks[i].item.id].item.statusCode = 0)

\* C9: the entry built and persisted for a send that received a response and
\* then failed has statusCode 400, whatever status the server returned.
C9_LateFailureSavedAs400 ==
    \A i \in 1..Len(tasks) :
        LET t == tasks[i]
        IN (t.op = "send" /\ t.srv # NoServer /\ t.error.message # "") =>
               /\ t.item.statusCode = 400
               /\ Saved(t) => Persisted(t)

\* The server answered 200 with a body that is not JSON; the entry is in the
\* store with statusCode 400.
C9_MalformedBodyOf200Saved ==
    \E i \in 1..Len(tasks) :
        /\ tasks[i].srv.status = 200 /\ tasks[i].error = BodyError
        /\ Saved(tasks[i]) /\ Persisted(tasks[i])
        /\ store[tasks[i].item.id].item.statusCode = 400

\* C10: once a send has succeeded, the status, duration and body shown are
\* the statusCode, duration and response of the item it built, the item's
\* statusCode is the server's status, and the entry persisted is that item.
C10_ShownEqualsPersisted ==
    \A i \in 1..Len(tasks) :
        LET t == tasks[i]
        IN (t.op = "send" /\ t.srv # NoServer /\ t.error.message = ""
                /\ t.pc \in {"set", "list", "get", "stats"}) =>
               /\ t.item.statusCode = t.srv.status
               /\ statusCode = Some(t.item.statusCode)
               /\ duration = Some(t.item.duration)
               /\ response = t.item.response
               /\ Saved(t) => Persisted(t)

\* The server answered 404 with a readable body after the clock had
\* advanced; 404 and the duration are shown and are in the stored entry.
C10_NotFoundShownAndSaved ==
    \E i \in 1..Len(tasks) :
        /\ tasks[i].srv.status = 404 /\ tasks[i].error.message = ""
        /\ Saved(tasks[i]) /\ Persisted(tasks[i])
        /\ statusCode = Some(404) /\ duration = Some(1)
        /\ store[tasks[i].item.id].item.statusCode = 404
        /\ store[tasks[i].item.id].item.duration = 1

\* C18: every sendRequest returns to Idle: whenever loading is true it is
\* eventually false again, on the validation-failure, fetch-rejection,
\* body-failure and success paths and when the save fails, provided fetch
\* and store operations settle.
C18_SendReturnsToIdle == loading ~> ~loading

\* A request answered 200 has returned to Idle although its save failed:
\* the status is shown, the store still holds its one initial entry.
C18_IdleAfterFailedSave ==
    /\ sends = 1 /\ Idle /\ ~loading
    /\ statusCode = Some(200)
    /\ Cardinality(DOMAIN store) = 1

-----------------------------------------------------------------------------
(* computeStats and loadStats                                              *)

\* The parseable records of the store, in the order of their ids.
StoredItems(st) ==
    LET keys == AscendingSeq(ParseableKeys(st))
    IN [k \in 1..Len(keys) |-> st[keys[k]].item]

CountOf(items, m) == Cardinality({k \in 1..Len(items) : items[k].method = m})

SumOf(items) ==
    LET RECURSIVE Sum(_, _)
        Sum(lo, hi) ==
            IF lo > hi THEN 0
            ELSE IF lo = hi
            THEN (IF items[lo].duration < 0 THEN 0 ELSE items[lo].duration)
            ELSE Sum(lo, (lo + hi) \div 2) + Sum((lo + hi) \div 2 + 1, hi)
    IN Sum(1, Len(items))

\* r is the statistics of items by the reference definition: total is the
\* number of entries, avgDuration an integer nearest to the mean duration,
\* methodStats at most 3 distinct methods with their counts, in
\* non-increasing count order, no method left out having a higher count than
\* one listed, and fewer than 3 listed only when there are no more methods.
IsStatsOf(r, items) ==
    LET methods == {items[k].method : k \in 1..Len(items)}
        listed == {r.methodStats[k].method : k \in 1..Len(r.methodStats)}
    IN /\ r.total = Len(items)
       /\ IF Len(items) = 0 THEN r.avgDuration = 0
          ELSE /\ 2 * r.avgDuration * r.total - 2 * SumOf(items) <= r.total
               /\ 2 * SumOf(items) - 2 * r.avgDuration * r.total <= r.total
       /\ Len(r.methodStats) = Min(3, Cardinality(methods))
       /\ Cardinality(listed) = Len(r.methodStats)
       /\ \A k \in 1..Len(r.methodStats) :
              /\ r.methodStats[k].method \in methods
              /\ r.methodStats[k].count = CountOf(items, r.methodStats[k].method)
              /\ k > 1 => r.methodStats[k - 1].count >= r.methodStats[k].count
              /\ \A m \in methods \ listed :
                     CountOf(items, m) <= r.methodStats[k].count

\* C19: the statistics computeStats returns for a list are the statistics of
\* that list by the reference definition (a missing duration counting as 0),
\* {total: 0, avgDuration: 0, methodStats: []} for the empty list; here for
\* every list loadStats hands it from a store of at most 100 records.
C19_StatsMatchReference ==
    (stats # None /\ Cardinality(DOMAIN store) <= RECENT_KEYS) =>
        /\ IsStatsOf(stats[1], StoredItems(store))
        /\ DOMAIN store = {} => stats[1] = EmptyStats

\* The statistics of the example store were computed: the durations 100,
\* 200 and 300 give avgDuration 200, GET counted twice and listed first.
C19_ExampleAveraged ==
    /\ stats # None /\ store = ExampleStore
    /\ stats[1].total = 3 /\ stats[1].avgDuration = 200
    /\ stats[1].methodStats = <<[method |-> "GET", count |-> 2],
                                [method |-> "POST", count |-> 1]>>

\* The records created last, at most 100 of them, oldest first.
NewestItems(st) ==
    LET items == StoredItems(st)
    IN SubSeq(items, IF Len(items) > 100 THEN Len(items) - 100 + 1 ELSE 1,
              Len(items))

\* C20: the statistics loadStats sets are computed over at most 100 records,
\* and when the store holds more than 100 records they are the statistics of
\* the 100 records created last.
C20_SampleIsNewest ==
    stats # None =>
        /\ stats[1].total <= 100
        /\ Cardinality(DOMAIN store) > 100 =>
               IsStatsOf(stats[1], NewestItems(store))

-----------------------------------------------------------------------------
(* The count shown, the list shown and the stored entries                  *)

\* C29: in Api1.jsx, whenever no load and no stats computation is in flight
\* (and no store operation has failed), totalCount is the number of
\* parseable records under the prefix.
C29_CountIsParseable ==
    (variant = "local" /\ mounted /\ Idle /\ faults = 0) =>
        totalCount = Cardinality(ParseableKeys(store))

\* C21: an entry is immutable once saved: no step of a run without store
\* failure, after the run's first sendRequest, changes the value stored
\* under a key that the store holds before and after the step, and
\* loadHistoryItem leaves the whole store as it is and closes the panel.
C21_EntriesImmutable ==
    [][/\ (sends >= 1 /\ faults' = 0) =>
              \A k \in DOMAIN store \cap DOMAIN store' : store'[k] = store[k]
       /\ \A k \in ItemTargets :
              loadHistoryItem(k) => (store' = store /\ ~showHistory')]_vars

\* The step carries out saveToHistory's write.
SaveSucceeds ==
    \/ \E i \in 1..Len(tasks) : SetSettled(i, FALSE)
    \/ /\ variant = "local"
       /\ \E req \in FailingRequests, d \in {0, 1}, failList \in BOOLEAN :
              sendRequest(req, MaxMutations, d, FALSE, failList)

\* C22: entry ids are unique: in a run without store failure every
\* successful save after the run's first sendRequest writes a key the store
\* did not hold, so the number of stored entries grows by exactly one.
C22_SaveAddsOneEntry ==
    [][(SaveSucceeds /\ sends >= 1 /\ faults' = 0) =>
           Cardinality(DOMAIN store') = Cardinality(DOMAIN store) + 1]_vars

-----------------------------------------------------------------------------
(* The order of sendRequest's validations                                  *)

\* The error message a send task carries and shows.
Reported(t) == t.error.message

ValidationMessages ==
    {"Invalid JSON in headers", "Invalid JSON in body", "URL is required",
     "Invalid URL format"}

\* C23: sendRequest validates headers, then the body, then that the URL is
\* not empty, then the URL's format, and reports the first failure only:
\* headers that are not JSON give "Invalid JSON in headers" whatever the body
\* and the URL are; the body is checked only under POST, PUT or PATCH when it
\* is not blank; a body that is not JSON under any other method passes the
\* validation, the call goes on to fetch, and fetchOptions has no body.
C23_ValidationOrder ==
    /\ \A i \in 1..Len(tasks) :
           LET t == tasks[i]
               req == t.req
               checked == req.method \in {"POST", "PUT", "PATCH"} /\ req.body # "blank"
           IN t.op = "send" =>
                  /\ req.headers = "bad" => Reported(t) = "Invalid JSON in headers"
                  /\ (req.headers = "json" /\ checked /\ req.body = "bad") =>
                         Reported(t) = "Invalid JSON in body"
                  /\ (req.headers = "json" /\ ~(checked /\ req.body = "bad")
                          /\ req.url = "blank") =>
                         Reported(t) = "URL is required"
                  /\ (req.headers = "json" /\ ~(checked /\ req.body = "bad")
                          /\ req.url = "bad") =>
                         Reported(t) = "Invalid URL format"
                  /\ (req.headers = "json" /\ ~checked /\ req.url = "ok") =>
                         /\ Reported(t) \notin ValidationMessages
                         /\ t.pc = "fetch" \/ t.srv # NoServer \/ t.error \in FetchErrors
                         /\ fetchOptionsBody(req) = None
                  /\ Reported(t) \in ValidationMessages =>
                         /\ t.item.response = ErrorResponse(t.error)
                         /\ t.item.statusCode = 400
    /\ \A req \in [method : Methods \ {"POST", "PUT", "PATCH"}, headers : {"json"},
                    body : {"blank", "json", "bad"}, url : {"ok"}] :
           Validate(req) = "" /\ fetchOptionsBody(req) = None

\* A GET whose body is not JSON has passed the validation and is awaiting
\* fetch.
C23_GetWithBadBodyFetches ==
    \E i \in 1..Len(tasks) :
        /\ tasks[i].req.method = "GET" /\ tasks[i].req.body = "bad"
        /\ tasks[i].pc = "fetch"
-----------------------------------------------------------------------------
(* saveToHistory is called once per send                                   *)

\* sendRequest has built t's history item and called saveToHistory with it.
SaveCalled(t) == t.op = "send" /\ t.pc \in {"set", "list", "get", "stats"}

\* C24: a sendRequest calls saveToHistory once on every path. Once it has
\* called it, no later step of the call builds another item, enters the
\* catch block or replaces the outcome shown, whether saveToHistory's write
\* and reload succeed or fail: the only write of the call is that of its one
\* item, so a send never stores a success entry and an error entry. A call
\* that ends without an await after its outcome was computed has called
\* saveToHistory too: its write changed the store or threw. No step changes
\* the store under more than one key.
C24_SavesOnce ==
    [][/\ \A i \in 1..Len(tasks) :
              SaveCalled(tasks[i]) =>
                  /\ response' = response /\ statusCode' = statusCode
                  /\ i \in 1..Len(tasks') =>
                         /\ tasks'[i].item = tasks[i].item
                         /\ tasks'[i].error = tasks[i].error
                         /\ SaveCalled(tasks'[i])
                  /\ store' # store =>
                         /\ tasks[i].pc = "set"
                         /\ store' = Put(store, tasks[i].item.id, Serialize(tasks[i].item))
                  /\ DOMAIN store' \subseteq DOMAIN tasks[i].before.store \cup {tasks[i].item.id}
       /\ \A i \in 1..Len(tasks) :
              (tasks[i].op = "send" /\ ~SaveCalled(tasks[i]) /\ Len(tasks') < Len(tasks)) =>
                  (store' # store \/ faults' > faults)
       /\ (sends' = sends + 1 /\ tasks' = tasks) =>
              (store' # store \/ faults' > faults)
       /\ Cardinality({k \in DOMAIN store \cup DOMAIN store' :
                          \/ k \notin DOMAIN store \cap DOMAIN store'
                          \/ store'[k] # store[k]}) <= 1]_vars

\* A request answered 200 was saved and the reload of saveToHistory failed:
\* the call has ended, 200 is still shown and the store holds the initial
\* entry and the one success entry.
C24_ReloadFailedAfterSuccess ==
    /\ sends = 1 /\ Idle /\ ~loading /\ faults = 1
    /\ statusCode = Some(200)
    /\ Cardinality(DOMAIN store) = 2
    /\ \E k \in DOMAIN store \ {1} : store[k].item.statusCode = 200
-----------------------------------------------------------------------------
(* The displayed list while calls overlap                                  *)

\* The runs of Api.jsx in which no store operation has failed and the
\* observer's callback has run at most once since it was installed.
PlainRun ==
    /\ variant = "storage" /\ faults = 0
    /\ observer = None \/ observer[1].fired <= 1

\* C25: however scroll appends interleave with saves and reloads, an append
\* in flight when a save resets the page to 1 and reloads included, the
\* displayed history never shows the same entry id twice. Stated of the
\* runs without store failure and without a repeated callback.
C25_NoDuplicateEntries ==
    PlainRun => Cardinality(Ids(history)) = Len(history)

\* C26: isLoadingHistory is true in every state in which a loadHistory call
\* that reads the store is in flight, also when two loads overlap and one of
\* them has finished. Stated of the runs without store failure.
C26_LoadingWhileFetching ==
    PlainRun => ((\E i \in 1..Len(tasks) : Fetching(tasks[i])) => isLoadingHistory)
-----------------------------------------------------------------------------
(* The displayed list between operations                                   *)

\* The parseable entries of the store.
ParseableItems(st) == {st[k].item : k \in ParseableKeys(st)}

\* items is the first n entries of an ordering of the set S by timestamp
\* descending: n entries of S, none twice, in non-increasing timestamp
\* order, and no entry left out is newer than an entry shown.
IsNewestPrefix(items, n, S) ==
    /\ Len(items) = n
    /\ \A k \in 1..Len(items) : items[k] \in S
    /\ \A j, k \in 1..Len(items) : j # k => items[j] # items[k]
    /\ Descending(items)
    /\ \A x \in S :
           (\A k \in 1..Len(items) : items[k] # x) =>
               \A k \in 1..Len(items) : items[k].timestamp >= x.timestamp

\* C27: when each operation completes before the next starts and no store
\* operation fails, then whenever no call is in flight the displayed history
\* is the first min(page * 20, N) of the N parseable entries of the store
\* sorted by timestamp descending.
C27_ShownIsNewestPrefix ==
    (mounted /\ Idle /\ faults = 0) =>
        IsNewestPrefix(history,
                       Min(page * ITEMS_PER_PAGE, Cardinality(ParseableKeys(store))),
                       ParseableItems(store))
\* A request was saved over a store of 21 entries, page 1 was reloaded and
\* the scroll then loaded page 2: all 22 entries are shown.
C27_SecondPageAfterSave ==
    /\ mounted /\ Idle /\ faults = 0
    /\ page = 2 /\ sends >= 1
    /\ Len(history) = ITEMS_PER_PAGE + 2
-----------------------------------------------------------------------------
(* Lazy loading runs to the end of the store                               *)

\* Every parseable entry of the store is displayed.
AllShown ==
    \A x \in ParseableItems(store) : \E k \in 1..Len(history) : history[k] = x

\* C28: while the panel stays open, the sentinel keeps intersecting, nothing
\* changes the store and every store read completes, lazy loading runs to
\* the end: eventually hasMore is false and the displayed history holds
\* every parseable entry of the store. A read that is rejected has not
\* completed; the runs in which one is are left to their own claim.
C28_LazyLoadingCompletes ==
    showHistory ~> (faults > 0 \/ (~hasMore /\ AllShown))

\* Three pages were loaded over a store of 41 entries without a failure, and
\* all 41 are shown.
C28_ThirdPageEndsScroll ==
    /\ showHistory /\ faults = 0 /\ tasks = <<>>
    /\ page = 3 /\ ~hasMore
    /\ Len(history) = 2 * ITEMS_PER_PAGE + 1 /\ AllShown
====
